---- MODULE Spec2Model ----
(***************************************************************************)
(* Model of the two ZWO accessory control programs:                        *)
(*   zwoefw-set  (src/zwoefw-set.c)      the EFW filter wheel              *)
(*   zwoeaf-set  (src/unnamed/part_000)  the EAF focuser                   *)
(* Each program is a single thread: main() parses its argument, opens the  *)
(* HID device, polls get_position until the device is settled, issues      *)
(* set_position commands and polls again.  The device and hidapi are the   *)
(* environment: every call returns a nondeterministic byte count and a     *)
(* nondeterministic report drawn from the bounded sets below.              *)
(***************************************************************************)
EXTENDS Integers, Sequences, FiniteSets, TLC

(***************************************************************************)
(* Program constants                                                       *)
(***************************************************************************)
ZWO_REPORT_LEN == 16

EFW_SLOTS == 7

(***************************************************************************)
(* Bounds of the model                                                     *)
(***************************************************************************)
\* largest slot byte the wheel reports in the program runs (0 and 8 are
\* outside the valid slots 1..7)
MaxSlotByte == 8

\* passes of the wheel's bounded polling loop after a step: 100 in the
\* source (for (i = 0; i < 100; i++)), scaled down; the loop is the same
\* for every limit
EfwPollLimit == 3

\* set_position commands per run of the wheel program beyond which no
\* further one is followed once a polling loop has run out (a run in which
\* every step settles ends by itself)
MaxCmds == 3

\* bounded polling loops that run out, per run of the wheel program
MaxTimeouts == 1

\* largest wheel argument value tried (0 and 8 are invalid)
MaxEfwArg == 8

(***************************************************************************)
(* Buffers: uint8_t buf[n], indexed from 0 as in the source                *)
(***************************************************************************)
memset0(n) == [k \in 0..(n - 1) |-> 0]

\* the byte counts hid_send_feature_report / hid_get_feature_report return:
\* -1 on error, ZWO_REPORT_LEN on success, or a short count
HidResults == {-1, 8, ZWO_REPORT_LEN}

(***************************************************************************)
(* Filter wheel driver                                                     *)
(***************************************************************************)
\* the frame efw_get_info sends
efw_get_info_frame ==
    [memset0(1 + ZWO_REPORT_LEN) EXCEPT ![0] = 3, ![1] = 126, ![2] = 90,
                                        ![3] = 2, ![4] = 4]

\* the identification report efw_get_info expects
efw_info_expected ==
    [k \in 0..(ZWO_REPORT_LEN - 1) |->
        <<1, 126, 90, 4, 3, 0, 9, 0, 69, 70, 87, 45, 83, 45, 48, 0>>[k + 1]]

\* efw_get_info: ret is the return value, anomaly the "unexpected values"
\* line on stderr, calls the number of feature-report calls made
efw_get_info(sendres, getres, buf) ==
    IF sendres # ZWO_REPORT_LEN
    THEN [ret |-> -1, anomaly |-> FALSE, calls |-> 1]
    ELSE IF getres # ZWO_REPORT_LEN
    THEN [ret |-> -1, anomaly |-> FALSE, calls |-> 2]
    ELSE [ret |-> 0,
          anomaly |-> \E k \in 0..(ZWO_REPORT_LEN - 1) : buf[k] # efw_info_expected[k],
          calls |-> 2]

\* the frame efw_set_position builds for a slot
efw_set_position_frame(slot) ==
    [memset0(ZWO_REPORT_LEN) EXCEPT ![0] = 3, ![1] = 126, ![2] = 90,
                                    ![3] = 1, ![4] = 2, ![5] = slot]

\* efw_set_position: sent is FALSE when the range check rejects the slot
\* before anything is sent
efw_set_position(slot, sendres) ==
    IF slot < 1 \/ slot > 7
    THEN [ret |-> -1, sent |-> FALSE, frame |-> memset0(ZWO_REPORT_LEN)]
    ELSE [ret |-> IF sendres # ZWO_REPORT_LEN THEN -1 ELSE 0,
          sent |-> TRUE,
          frame |-> efw_set_position_frame(slot)]

\* the constant-byte check of efw_get_position
efw_position_anomaly(buf) ==
    \/ buf[0] # 1
    \/ buf[1] # 126 \/ buf[2] # 90
    \/ buf[3] # 1
    \/ buf[10] # 0 \/ buf[11] # 0
    \/ buf[12] # 0 \/ buf[13] # 0
    \/ buf[14] # 48 \/ buf[15] # 0

\* efw_classify with the third consistency byte left out of the comparison
efw_classify_two_bytes(buf) ==
    LET status  == buf[4]
        errcode == buf[5]
    IN  IF buf[6] = buf[7] /\ status = 1 THEN 0
        ELSE IF status = 6 \/ errcode # 0 THEN -1
        ELSE 1

\* the classification of a successfully read position report:
\* 0 settled, -1 unrecoverable, 1 caller should wait
efw_classify(buf) ==
    LET status  == buf[4]
        errcode == buf[5]
    IN  IF buf[6] = buf[7] /\ buf[7] = buf[8] /\ status = 1 THEN 0
        ELSE IF status = 6 \/ errcode # 0 THEN -1
        ELSE 1

\* efw_get_position writing *slotret for every report read, settled or not
efw_get_position_writes_always(sendres, getres, buf) ==
    IF sendres # ZWO_REPORT_LEN
    THEN [ret |-> -1, set |-> FALSE, slot |-> 0, anomaly |-> FALSE, calls |-> 1]
    ELSE IF getres # ZWO_REPORT_LEN
    THEN [ret |-> -1, set |-> FALSE, slot |-> 0, anomaly |-> FALSE, calls |-> 2]
    ELSE [ret |-> efw_classify(buf),
          set |-> TRUE,
          slot |-> buf[6],
          anomaly |-> efw_position_anomaly(buf),
          calls |-> 2]

\* efw_get_position returning -1 for a report with unexpected constant
\* bytes
efw_get_position_anomaly_fatal(sendres, getres, buf) ==
    IF sendres # ZWO_REPORT_LEN
    THEN [ret |-> -1, set |-> FALSE, slot |-> 0, anomaly |-> FALSE, calls |-> 1]
    ELSE IF getres # ZWO_REPORT_LEN
    THEN [ret |-> -1, set |-> FALSE, slot |-> 0, anomaly |-> FALSE, calls |-> 2]
    ELSE LET r == IF efw_position_anomaly(buf) THEN -1 ELSE efw_classify(buf)
         IN  [ret |-> r,
              set |-> (r = 0),
              slot |-> IF r = 0 THEN buf[6] ELSE 0,
              anomaly |-> efw_position_anomaly(buf),
              calls |-> 2]

\* efw_get_position: set tells whether *slotret was written, slot the
\* value written
efw_get_position(sendres, getres, buf) ==
    IF sendres # ZWO_REPORT_LEN
    THEN [ret |-> -1, set |-> FALSE, slot |-> 0, anomaly |-> FALSE, calls |-> 1]
    ELSE IF getres # ZWO_REPORT_LEN
    THEN [ret |-> -1, set |-> FALSE, slot |-> 0, anomaly |-> FALSE, calls |-> 2]
    ELSE LET r == efw_classify(buf)
         IN  [ret |-> r,
              set |-> (r = 0),
              slot |-> IF r = 0 THEN buf[6] ELSE 0,
              anomaly |-> efw_position_anomaly(buf),
              calls |-> 2]

\* efw_nextslot without the "- 1": two slots forward
efw_nextslot_skips(slot) == ((slot + 1) % EFW_SLOTS) + 1

\* efw_nextslot without the wrap-around
efw_nextslot_no_wrap(slot) == slot + 1

\* nextslot of the move loop; the uint8_t operand is promoted to int
efw_nextslot(slot) == ((slot - 1 + 1) % EFW_SLOTS) + 1

(***************************************************************************)
(* Focuser driver                                                          *)
(***************************************************************************)
\* eaf_set_position_frame with the two position bytes in the other order
eaf_set_position_frame_low_first(p) ==
    [memset0(ZWO_REPORT_LEN) EXCEPT ![0] = 3, ![1] = 126, ![2] = 90,
                                    ![3] = 3, ![4] = 1, ![5] = 0, ![6] = 0,
                                    ![7] = 0,
                                    ![8] = p % 256,
                                    ![9] = (p \div 256) % 256,
                                    ![13] = 2, ![14] = 234, ![15] = 96]

\* the frame eaf_set_position builds for a uint16_t pos
eaf_set_position_frame(p) ==
    [memset0(ZWO_REPORT_LEN) EXCEPT ![0] = 3, ![1] = 126, ![2] = 90,
                                    ![3] = 3, ![4] = 1, ![5] = 0, ![6] = 0,
                                    ![7] = 0,
                                    ![8] = (p \div 256) % 256,
                                    ![9] = p % 256,
                                    ![13] = 2, ![14] = 234, ![15] = 96]

\* eaf_set_position
eaf_set_position(p, sendres) ==
    [ret |-> IF sendres # ZWO_REPORT_LEN THEN -1 ELSE 0,
     sent |-> TRUE,
     frame |-> eaf_set_position_frame(p)]

\* the constant-byte check of eaf_get_position
eaf_position_anomaly(buf) ==
    \/ buf[0] # 1
    \/ buf[1] # 126 \/ buf[2] # 90
    \/ buf[3] # 3
    \/ buf[5] # 0 \/ buf[6] # 0 \/ buf[7] # 0
    \/ buf[10] # 0
    \/ buf[14] # 234 \/ buf[15] # 96

\* uint16_t position = (buf[8] << 8) | buf[9]
eaf_position(buf) == buf[8] * 256 + buf[9]

\* eaf_classify taking only the observed status 1 as moving
eaf_classify_only_one(buf) == IF buf[4] = 1 THEN 1 ELSE 0

\* the return value for a successfully read report
eaf_classify(buf) == IF buf[4] # 0 THEN 1 ELSE 0

\* eaf_get_position: set tells whether *posret was written; posmax is the
\* value written to *posmaxret when the caller passes one
eaf_get_position(sendres, getres, buf) ==
    IF sendres # ZWO_REPORT_LEN
    THEN [ret |-> -1, set |-> FALSE, pos |-> 0, posmax |-> 0,
          anomaly |-> FALSE, calls |-> 1]
    ELSE IF getres # ZWO_REPORT_LEN
    THEN [ret |-> -1, set |-> FALSE, pos |-> 0, posmax |-> 0,
          anomaly |-> FALSE, calls |-> 2]
    ELSE [ret |-> eaf_classify(buf),
          set |-> TRUE,
          pos |-> eaf_position(buf),
          posmax |-> buf[14] * 256 + buf[15],
          anomaly |-> eaf_position_anomaly(buf),
          calls |-> 2]

(***************************************************************************)
(* The device, as the programs see it                                      *)
(***************************************************************************)
\* a wheel position report with the constant bytes of the observed examples
\* (01 7e 5a 01 ss ee c6 c7 c8 07 00 00 00 00 30 00); cmd is the echoed
\* command byte at offset 3, 1 on the observed device
EfwReport(cmd, status, errcode, c6, c7, c8) ==
    [memset0(1 + ZWO_REPORT_LEN) EXCEPT ![0] = 1, ![1] = 126, ![2] = 90,
                                        ![3] = cmd, ![4] = status,
                                        ![5] = errcode, ![6] = c6, ![7] = c7,
                                        ![8] = c8, ![9] = 7, ![14] = 48]

\* status bytes: 1 stable, 4 moving, 6 locked up; error codes 0 and 0x0c
EfwStatusBytes == {1, 4, 6}

EfwErrorBytes == {0, 12}

SlotBytes == 0..MaxSlotByte

\* the reports the wheel returns while a program runs: a settled report
\* (status 1, error code 0, the three bytes equal) for every slot byte, for
\* one slot byte every combination of status, error code and agreement of
\* the three bytes, and a report with an unexpected command byte
EfwReports ==
    {EfwReport(1, 1, 0, c, c, c) : c \in SlotBytes}
    \cup {EfwReport(1, st, ec, 3, 3, c8) :
            st \in EfwStatusBytes, ec \in EfwErrorBytes, c8 \in {3, 4}}
    \cup {EfwReport(2, 1, 0, 3, 3, 3)}

\* one get/send exchange with the device: <<sendres, getres, buf>>
HidFailures == HidResults \ {ZWO_REPORT_LEN}

EfwExchanges ==
    {<<s, ZWO_REPORT_LEN, memset0(1 + ZWO_REPORT_LEN)>> : s \in HidFailures}
    \cup {<<ZWO_REPORT_LEN, g, memset0(1 + ZWO_REPORT_LEN)>> : g \in HidFailures}
    \cup {<<ZWO_REPORT_LEN, ZWO_REPORT_LEN, b>> : b \in EfwReports}

\* the identification reports: the expected one and one that differs
EfwInfoReports ==
    {efw_info_expected, [efw_info_expected EXCEPT ![14] = 49]}

\* a focuser position report with the constant bytes of the observed
\* examples (01 7e 5a 03 ss 00 00 00 hi lo 00 7f d2 32 mh ml)
EafReport(cmd, status, hi, lo, mh, ml) ==
    [memset0(1 + ZWO_REPORT_LEN) EXCEPT ![0] = 1, ![1] = 126, ![2] = 90,
                                        ![3] = cmd, ![4] = status,
                                        ![8] = hi, ![9] = lo,
                                        ![11] = 127, ![12] = 210, ![13] = 50,
                                        ![14] = mh, ![15] = ml]

\* status bytes: 0 stable, 1 moving, and one never observed
EafStatusBytes == {0, 1, 2}

\* position bytes: the positions 0, 1, 255, 256, 257 and 511
EafHiBytes == {0, 1}

EafLoBytes == {0, 1, 255}

\* device maximum: 60000 (0xea60) as observed, or 256
EafMaxBytes == {<<234, 96>>, <<1, 0>>}

EafReports ==
    {EafReport(3, st, hi, lo, m[1], m[2]) :
        st \in EafStatusBytes, hi \in EafHiBytes, lo \in EafLoBytes,
        m \in EafMaxBytes}
    \cup {EafReport(1, 0, 0, 1, 234, 96)}

EafExchanges ==
    {<<s, ZWO_REPORT_LEN, memset0(1 + ZWO_REPORT_LEN)>> : s \in HidFailures}
    \cup {<<ZWO_REPORT_LEN, g, memset0(1 + ZWO_REPORT_LEN)>> : g \in HidFailures}
    \cup {<<ZWO_REPORT_LEN, ZWO_REPORT_LEN, b>> : b \in EafReports}

(***************************************************************************)
(* State                                                                   *)
(***************************************************************************)
VARIABLES
    prog,          \* the program that runs: "zwoefw-set" or "zwoeaf-set"
    argc,          \* 1: no argument, 2: one argument
    argv1,         \* strtol(argv[1], NULL, 10) of the wheel program
    pc,            \* position of main()
    handle,        \* "null", "open" or "closed"
    closes,        \* number of hid_close calls
    exitcode,      \* -1 while running, then the argument of exit()
    res,           \* int res of main()
    targetslot, slot, nextslot, i,   \* locals of the wheel's main()
    cmds,          \* history: the slots of the set_position frames sent
    firstSettled,  \* history: slot of the first Settled result, -1 if none
    lastSettled,   \* history: slot of the last Settled result, -1 if none
    timeouts,      \* history: inner poll loops that ran out
    sign,          \* argv[1][0] of the focuser program: "+", "-" or ""
    targetpos, targetrel, pos, posmax,   \* locals of the focuser's main()
    lastpos,       \* history: position carried by the last report read
    contacted,     \* history: a feature-report call (send or get) was made
    failed,        \* history: a feature-report call returned a count other
                   \* than 16, or get_position returned -1
    late,          \* history: a feature-report call was made on a handle
                   \* that was not open
    retried,       \* history: a feature-report call was made after a
                   \* failed one
    fin, fout      \* a driver function's input and, once applied, its result

efwLocals == <<targetslot, slot, nextslot, i, timeouts>>

eafLocals == <<sign, targetpos, targetrel, pos, posmax, lastpos>>

fnVars == <<fin, fout>>

hidHist == <<contacted, failed, late, retried>>

vars == <<prog, argc, argv1, pc, handle, closes, exitcode, res,
          cmds, firstSettled, lastSettled, efwLocals, eafLocals, hidHist,
          fnVars>>

\* main() has not started
MainInit ==
    /\ pc = "args"
    /\ handle = "null"
    /\ closes = 0
    /\ exitcode = -1
    /\ res = 0
    /\ cmds = <<>>
    /\ firstSettled = -1
    /\ lastSettled = -1
    /\ contacted = FALSE
    /\ failed = FALSE
    /\ late = FALSE
    /\ retried = FALSE

EfwLocalsInit ==
    /\ targetslot = 0
    /\ slot = 0
    /\ nextslot = 0
    /\ i = 0
    /\ timeouts = 0

EafLocalsInit ==
    /\ sign = ""
    /\ targetpos = -1
    /\ targetrel = FALSE
    /\ pos = 0
    /\ posmax = 0
    /\ lastpos = -1

\* everything but a driver function's input and result
mainVars == <<prog, argc, argv1, pc, handle, closes, exitcode, res,
              cmds, firstSettled, lastSettled, efwLocals, eafLocals, hidHist>>

FnIdle ==
    /\ fin = <<>>
    /\ fout = {}

(***************************************************************************)
(* zwoefw-set: main()                                                      *)
(***************************************************************************)
EfwArgs == 0..MaxEfwArg

EfwInit ==
    /\ prog = "zwoefw-set"
    /\ argc \in {1, 2}
    /\ argv1 \in IF argc = 1 THEN {0} ELSE EfwArgs
    /\ MainInit
    /\ EfwLocalsInit
    /\ EafLocalsInit
    /\ FnIdle

\* errexit without the hid_close
ErrexitNoClose ==
    /\ exitcode' = 2
    /\ pc' = "exit"
    /\ UNCHANGED <<handle, closes>>

\* errexit: close the handle if there is one, hid_exit, exit(2)
Errexit ==
    /\ handle' = IF handle = "open" THEN "closed" ELSE handle
    /\ closes' = IF handle = "open" THEN closes + 1 ELSE closes
    /\ exitcode' = 2
    /\ pc' = "exit"

\* errexitlast: exit(2)
Errexitlast ==
    /\ exitcode' = 2
    /\ pc' = "exit"
    /\ UNCHANGED <<handle, closes>>

\* a driver function that made its calls in order failed in a call: the
\* send returned a count other than 16, or the get that followed it did
HidFailed(sendres, getres, calls) ==
    \/ calls > 0 /\ sendres # ZWO_REPORT_LEN
    \/ calls > 1 /\ getres # ZWO_REPORT_LEN

\* the history of feature-report calls, after a driver function made
\* `calls` of them on the handle: sendfailed tells that its send failed,
\* failure that one of its calls failed or that it returned Fatal
Hid(calls, sendfailed, failure) ==
    /\ contacted' = (contacted \/ calls > 0)
    /\ late' = (late \/ (calls > 0 /\ handle # "open"))
    /\ retried' = (retried \/ (calls > 0 /\ failed) \/ (calls > 1 /\ sendfailed))
    /\ failed' = (failed \/ failure)

\* the history of Settled results, after a get_position result r
Observe(r) ==
    /\ lastSettled' = IF r.ret = 0 THEN r.slot ELSE lastSettled
    /\ firstSettled' = IF r.ret = 0 /\ firstSettled = -1 THEN r.slot
                       ELSE firstSettled

\* efw_arg_invalid without the upper limit
efw_arg_invalid_no_upper(a) == a < 1

\* the test of the argument
efw_arg_invalid(a) == a < 1 \/ a > 7

\* argument check
EfwMain_Args ==
    /\ prog = "zwoefw-set"
    /\ pc = "args"
    /\ IF argc > 1
       THEN IF efw_arg_invalid(argv1)
            THEN /\ Errexitlast
                 /\ UNCHANGED targetslot
            ELSE /\ targetslot' = argv1 % 256
                 /\ pc' = "hid_init"
                 /\ UNCHANGED <<handle, closes, exitcode>>
       ELSE /\ pc' = "hid_init"
            /\ UNCHANGED <<targetslot, handle, closes, exitcode>>
    /\ UNCHANGED <<prog, eafLocals, fnVars>>
    /\ UNCHANGED <<argc, argv1, res, slot, nextslot, i,
                   cmds, firstSettled, lastSettled, timeouts, hidHist>>

\* hid_init
EfwMain_HidInit ==
    /\ prog = "zwoefw-set"
    /\ pc = "hid_init"
    /\ \E r \in {0, -1} :
          /\ res' = r
          /\ IF r # 0
             THEN Errexitlast
             ELSE /\ pc' = "hid_open"
                  /\ UNCHANGED <<handle, closes, exitcode>>
    /\ UNCHANGED <<prog, eafLocals, fnVars>>
    /\ UNCHANGED <<argc, argv1, targetslot, slot, nextslot, i,
                   cmds, firstSettled, lastSettled, timeouts, hidHist>>

\* hid_open
EfwMain_HidOpen ==
    /\ prog = "zwoefw-set"
    /\ pc = "hid_open"
    /\ \E opened \in BOOLEAN :
          IF ~opened
          THEN Errexit
          ELSE /\ handle' = "open"
               /\ pc' = "strings"
               /\ UNCHANGED <<closes, exitcode>>
    /\ UNCHANGED <<prog, eafLocals, fnVars>>
    /\ UNCHANGED <<argc, argv1, res, targetslot, slot, nextslot, i,
                   cmds, firstSettled, lastSettled, timeouts, hidHist>>

\* the manufacturer and product strings (skipped on OS X, which behaves
\* as both calls returning 0)
EfwMain_Strings ==
    /\ prog = "zwoefw-set"
    /\ pc = "strings"
    /\ \E r1 \in {0, -1}, r2 \in {0, -1} :
          IF r1 # 0
          THEN /\ res' = r1
               /\ Errexit
          ELSE /\ res' = r2
               /\ IF r2 # 0
                  THEN Errexit
                  ELSE /\ pc' = "get_info"
                       /\ UNCHANGED <<handle, closes, exitcode>>
    /\ UNCHANGED <<prog, eafLocals, fnVars>>
    /\ UNCHANGED <<argc, argv1, targetslot, slot, nextslot, i,
                   cmds, firstSettled, lastSettled, timeouts, hidHist>>

\* efw_get_info
EfwMain_GetInfo ==
    /\ prog = "zwoefw-set"
    /\ pc = "get_info"
    /\ \E s \in HidResults, g \in HidResults, b \in EfwInfoReports :
          LET r == efw_get_info(s, g, b)
          IN  /\ Hid(r.calls, s # ZWO_REPORT_LEN, HidFailed(s, g, r.calls))
              /\ IF r.ret # 0
                 THEN Errexit
                 ELSE /\ pc' = "poll_initial"
                      /\ UNCHANGED <<handle, closes, exitcode>>
    /\ UNCHANGED <<prog, eafLocals, fnVars>>
    /\ UNCHANGED <<argc, argv1, res, targetslot, slot, nextslot, i,
                   cmds, firstSettled, lastSettled, timeouts>>

\* efw_initial_branch giving up on a result of Moving
efw_initial_branch_gives_up(ret) ==
    IF ret = 0 THEN "break" ELSE "errexit"

\* what a pass of the initial polling loop does with the result of
\* efw_get_position: goto errexit, break, or sleep and poll again
efw_initial_branch(ret) ==
    IF ret = -1 THEN "errexit" ELSE IF ret = 0 THEN "break" ELSE "again"

\* efw_default_target keeping the target of 0
efw_default_target_keeps(t, s) == t

\* if (targetslot == 0) targetslot = slot
efw_default_target(t, s) == IF t = 0 THEN s ELSE t

\* one pass of the initial polling loop, and on Settled the default target
EfwMain_PollInitial ==
    /\ prog = "zwoefw-set"
    /\ pc = "poll_initial"
    /\ \E x \in EfwExchanges :
          LET r == efw_get_position(x[1], x[2], x[3])
              s == IF r.set THEN r.slot ELSE slot
              b == efw_initial_branch(r.ret)
          IN  /\ res' = r.ret
              /\ slot' = s
              /\ Observe(r)
              /\ Hid(r.calls, x[1] # ZWO_REPORT_LEN,
                     HidFailed(x[1], x[2], r.calls) \/ r.ret = -1)
              /\ IF b = "errexit"
                 THEN /\ Errexit
                      /\ UNCHANGED targetslot
                 ELSE IF b = "break"
                 THEN /\ targetslot' = efw_default_target(targetslot, s)
                      /\ pc' = "loop"
                      /\ UNCHANGED <<handle, closes, exitcode>>
                 ELSE UNCHANGED <<pc, targetslot, handle, closes, exitcode>>
    /\ UNCHANGED <<prog, eafLocals, fnVars>>
    /\ UNCHANGED <<argc, argv1, nextslot, i, cmds, timeouts>>

\* efw_loop_cond as "slot < targetslot"
efw_loop_cond_below(s, t) == s < t

\* the test of the move loop
efw_loop_cond(s, t) == s # t

\* while (slot != targetslot): one single-step set_position
EfwMain_Step ==
    /\ prog = "zwoefw-set"
    /\ pc = "loop"
    /\ efw_loop_cond(slot, targetslot)
    /\ timeouts = 0 \/ Len(cmds) < MaxCmds
    /\ \E sendres \in HidResults :
          LET n == efw_nextslot(slot) % 256
              r == efw_set_position(n, sendres)
          IN  /\ nextslot' = n
              /\ cmds' = IF r.sent THEN Append(cmds, r.frame[5]) ELSE cmds
              /\ Hid(IF r.sent THEN 1 ELSE 0, sendres # ZWO_REPORT_LEN,
                     r.sent /\ sendres # ZWO_REPORT_LEN)
              /\ IF r.ret # 0
                 THEN /\ Errexit
                      /\ UNCHANGED i
                 ELSE /\ i' = 0
                      /\ pc' = "poll"
                      /\ UNCHANGED <<handle, closes, exitcode>>
    /\ UNCHANGED <<prog, eafLocals, fnVars>>
    /\ UNCHANGED <<argc, argv1, res, targetslot, slot,
                   firstSettled, lastSettled, timeouts>>

\* efw_poll_branch polling again after a result of -1
efw_poll_branch_retries(ret, s, n) ==
    IF ret = 0 /\ s = n THEN "break" ELSE "again"

\* what a pass of the bounded polling loop does with the result of
\* efw_get_position and the slot it left: goto errexit, break, or sleep
\* and go on
efw_poll_branch(ret, s, n) ==
    IF ret = -1 THEN "errexit"
    ELSE IF ret = 0 /\ s = n THEN "break"
    ELSE "again"

\* one pass of the bounded polling loop after a step
EfwMain_Poll ==
    /\ prog = "zwoefw-set"
    /\ pc = "poll"
    /\ i < EfwPollLimit
    /\ \E x \in EfwExchanges :
          LET r == efw_get_position(x[1], x[2], x[3])
              s == IF r.set THEN r.slot ELSE slot
              b == efw_poll_branch(r.ret, s, nextslot)
          IN  /\ res' = r.ret
              /\ slot' = s
              /\ Observe(r)
              /\ Hid(r.calls, x[1] # ZWO_REPORT_LEN,
                     HidFailed(x[1], x[2], r.calls) \/ r.ret = -1)
              /\ IF b = "errexit"
                 THEN /\ Errexit
                      /\ UNCHANGED <<i, timeouts>>
                 ELSE IF b = "break"
                 THEN /\ pc' = "loop"
                      /\ UNCHANGED <<i, timeouts, handle, closes, exitcode>>
                 ELSE /\ i + 1 < EfwPollLimit \/ timeouts < MaxTimeouts
                      /\ i' = i + 1
                      /\ pc' = IF i + 1 < EfwPollLimit THEN "poll" ELSE "loop"
                      /\ timeouts' = IF i + 1 < EfwPollLimit THEN timeouts
                                     ELSE timeouts + 1
                      /\ UNCHANGED <<handle, closes, exitcode>>
    /\ UNCHANGED <<prog, eafLocals, fnVars>>
    /\ UNCHANGED <<argc, argv1, targetslot, nextslot, cmds>>

\* the loop is over: hid_close, hid_exit, exit(0)
EfwMain_Finish ==
    /\ prog = "zwoefw-set"
    /\ pc = "loop"
    /\ ~efw_loop_cond(slot, targetslot)
    /\ handle' = "closed"
    /\ closes' = closes + 1
    /\ exitcode' = 0
    /\ pc' = "exit"
    /\ UNCHANGED <<prog, eafLocals, fnVars>>
    /\ UNCHANGED <<argc, argv1, res, targetslot, slot, nextslot, i,
                   cmds, firstSettled, lastSettled, timeouts, hidHist>>

EfwNext ==
    \/ EfwMain_Args
    \/ EfwMain_HidInit
    \/ EfwMain_HidOpen
    \/ EfwMain_Strings
    \/ EfwMain_GetInfo
    \/ EfwMain_PollInitial
    \/ EfwMain_Step
    \/ EfwMain_Poll
    \/ EfwMain_Finish

SpecEfw == EfwInit /\ [][EfwNext]_vars

(***************************************************************************)
(* zwoeaf-set: main()                                                      *)
(***************************************************************************)
\* strtol of the argument after its sign: in range, below 0 (as for
\* "--1"), and above 0xffff
EafArgs == {-1, 0, 1, 256, 65535, 65536}

EafInit ==
    /\ prog = "zwoeaf-set"
    /\ argc \in {1, 2}
    /\ argv1 \in IF argc = 1 THEN {0} ELSE EafArgs
    /\ sign \in IF argc = 1 THEN {""} ELSE {"", "+", "-"}
    /\ MainInit
    /\ EfwLocalsInit
    /\ targetpos = -1
    /\ targetrel = FALSE
    /\ pos = 0
    /\ posmax = 0
    /\ lastpos = -1
    /\ FnIdle

\* the history after a focuser get_position result r
EafObserve(r) ==
    /\ lastpos' = IF r.set THEN r.pos ELSE lastpos
    /\ lastSettled' = IF r.ret = 0 THEN r.pos ELSE lastSettled
    /\ firstSettled' = IF r.ret = 0 /\ firstSettled = -1 THEN r.pos
                       ELSE firstSettled

\* the test of the argument's magnitude
eaf_arg_invalid(a) == a < 0 \/ a > 65535

\* argument check
EafMain_Args ==
    /\ prog = "zwoeaf-set"
    /\ pc = "args"
    /\ IF argc > 1
       THEN /\ targetrel' = (sign \in {"-", "+"})
            /\ targetpos' = argv1
            /\ IF eaf_arg_invalid(argv1)
               THEN Errexitlast
               ELSE /\ pc' = "hid_init"
                    /\ UNCHANGED <<handle, closes, exitcode>>
       ELSE /\ pc' = "hid_init"
            /\ UNCHANGED <<targetrel, targetpos, handle, closes, exitcode>>
    /\ UNCHANGED <<prog, efwLocals, fnVars>>
    /\ UNCHANGED <<argc, argv1, sign, res, pos, posmax, lastpos,
                   cmds, firstSettled, lastSettled, hidHist>>

\* hid_init
EafMain_HidInit ==
    /\ prog = "zwoeaf-set"
    /\ pc = "hid_init"
    /\ \E r \in {0, -1} :
          /\ res' = r
          /\ IF r # 0
             THEN Errexitlast
             ELSE /\ pc' = "hid_open"
                  /\ UNCHANGED <<handle, closes, exitcode>>
    /\ UNCHANGED <<prog, efwLocals, fnVars>>
    /\ UNCHANGED <<argc, argv1, eafLocals, cmds, firstSettled, lastSettled,
                   hidHist>>

\* hid_open
EafMain_HidOpen ==
    /\ prog = "zwoeaf-set"
    /\ pc = "hid_open"
    /\ \E opened \in BOOLEAN :
          IF ~opened
          THEN Errexit
          ELSE /\ handle' = "open"
               /\ pc' = "poll_initial"
               /\ UNCHANGED <<closes, exitcode>>
    /\ UNCHANGED <<prog, efwLocals, fnVars>>
    /\ UNCHANGED <<argc, argv1, res, eafLocals, cmds, firstSettled,
                   lastSettled, hidHist>>

\* what a pass of the initial polling loop does with the result of
\* eaf_get_position: goto errexit, break, or sleep and poll again
eaf_initial_branch(ret) ==
    IF ret = -1 THEN "errexit" ELSE IF ret = 0 THEN "break" ELSE "again"

\* one pass of the initial polling loop
EafMain_PollInitial ==
    /\ prog = "zwoeaf-set"
    /\ pc = "poll_initial"
    /\ \E x \in EafExchanges :
          LET r == eaf_get_position(x[1], x[2], x[3])
              b == eaf_initial_branch(r.ret)
          IN  /\ res' = r.ret
              /\ pos' = IF r.set THEN r.pos ELSE pos
              /\ posmax' = IF r.set THEN r.posmax ELSE posmax
              /\ EafObserve(r)
              /\ Hid(r.calls, x[1] # ZWO_REPORT_LEN,
                     HidFailed(x[1], x[2], r.calls) \/ r.ret = -1)
              /\ IF b = "errexit"
                 THEN Errexit
                 ELSE IF b = "break"
                 THEN /\ pc' = "target"
                      /\ UNCHANGED <<handle, closes, exitcode>>
                 ELSE UNCHANGED <<pc, handle, closes, exitcode>>
    /\ UNCHANGED <<prog, efwLocals, fnVars>>
    /\ UNCHANGED <<argc, argv1, sign, targetpos, targetrel, cmds>>

\* targetpos = pos + (targetpos * (*targetrelsign == '-' ? -1 : 1))
eaf_resolve(rel, sgn, p, t) ==
    IF rel THEN p + (t * (IF sgn = "-" THEN -1 ELSE 1)) ELSE t

\* eaf_target_invalid without the test for a negative target
eaf_target_invalid_no_lower(t, max) == t > max

\* the range check of the resolved target
eaf_target_invalid(t, max) == t < 0 \/ t > max

\* eaf_loop_cond as "pos < targetpos"
eaf_loop_cond_below(p, t) == p < t

\* the test of the move loop
eaf_loop_cond(p, t) == p # t

\* if (targetpos != -1): resolve the target, check it, set_position;
\* without a target: hid_close, hid_exit, exit(0)
EafMain_Target ==
    /\ prog = "zwoeaf-set"
    /\ pc = "target"
    /\ IF targetpos # -1
       THEN LET t == eaf_resolve(targetrel, sign, pos, targetpos)
            IN  /\ targetpos' = t
                /\ IF eaf_target_invalid(t, posmax)
                   THEN /\ Errexit
                        /\ UNCHANGED <<cmds, hidHist>>
                   ELSE \E sendres \in HidResults :
                          LET r == eaf_set_position(t % 65536, sendres)
                          IN  /\ cmds' = Append(cmds, eaf_position(r.frame))
                              /\ Hid(1, sendres # ZWO_REPORT_LEN,
                                     sendres # ZWO_REPORT_LEN)
                              /\ IF r.ret # 0
                                 THEN Errexit
                                 ELSE /\ pc' = "move"
                                      /\ UNCHANGED <<handle, closes, exitcode>>
       ELSE /\ handle' = "closed"
            /\ closes' = closes + 1
            /\ exitcode' = 0
            /\ pc' = "exit"
            /\ UNCHANGED <<targetpos, cmds, hidHist>>
    /\ UNCHANGED <<prog, efwLocals, fnVars>>
    /\ UNCHANGED <<argc, argv1, sign, res, targetrel, pos, posmax, lastpos,
                   firstSettled, lastSettled>>

\* what a pass of the move loop does with the result of
\* eaf_get_position and the position it left: goto errexit, break, or
\* sleep and test the loop condition
eaf_poll_branch(ret, p, t) ==
    IF ret = -1 THEN "errexit"
    ELSE IF ret = 0 /\ p = t THEN "break"
    ELSE "again"

\* one pass of while (pos != targetpos); its break leads to hid_close,
\* hid_exit, exit(0)
EafMain_Poll ==
    /\ prog = "zwoeaf-set"
    /\ pc = "move"
    /\ eaf_loop_cond(pos, targetpos)
    /\ \E x \in EafExchanges :
          LET r == eaf_get_position(x[1], x[2], x[3])
              p == IF r.set THEN r.pos ELSE pos
              b == eaf_poll_branch(r.ret, p, targetpos)
          IN  /\ res' = r.ret
              /\ pos' = p
              /\ EafObserve(r)
              /\ Hid(r.calls, x[1] # ZWO_REPORT_LEN,
                     HidFailed(x[1], x[2], r.calls) \/ r.ret = -1)
              /\ IF b = "errexit"
                 THEN Errexit
                 ELSE IF b = "break"
                 THEN /\ handle' = "closed"
                      /\ closes' = closes + 1
                      /\ exitcode' = 0
                      /\ pc' = "exit"
                 ELSE UNCHANGED <<pc, handle, closes, exitcode>>
    /\ UNCHANGED <<prog, efwLocals, fnVars>>
    /\ UNCHANGED <<argc, argv1, sign, targetpos, targetrel, posmax, cmds>>

\* the loop test fails: hid_close, hid_exit, exit(0)
EafMain_Finish ==
    /\ prog = "zwoeaf-set"
    /\ pc = "move"
    /\ ~eaf_loop_cond(pos, targetpos)
    /\ handle' = "closed"
    /\ closes' = closes + 1
    /\ exitcode' = 0
    /\ pc' = "exit"
    /\ UNCHANGED <<prog, efwLocals, fnVars>>
    /\ UNCHANGED <<argc, argv1, res, eafLocals, cmds, firstSettled,
                   lastSettled, hidHist>>

EafNext ==
    \/ EafMain_Args
    \/ EafMain_HidInit
    \/ EafMain_HidOpen
    \/ EafMain_PollInitial
    \/ EafMain_Target
    \/ EafMain_Poll
    \/ EafMain_Finish

SpecEaf == EafInit /\ [][EafNext]_vars

(***************************************************************************)
(* Either program, run once                                                *)
(***************************************************************************)
MainInitBoth == EfwInit \/ EafInit

MainNext == EfwNext \/ EafNext

SpecMain == MainInitBoth /\ [][MainNext]_vars

(***************************************************************************)
(* Either program up to the end of its initial polling loop.  main() is a  *)
(* sequential process: it always takes its next step, and usleep returns.  *)
(***************************************************************************)
InitialNext ==
    \/ EfwMain_Args
    \/ EfwMain_HidInit
    \/ EfwMain_HidOpen
    \/ EfwMain_Strings
    \/ EfwMain_GetInfo
    \/ EfwMain_PollInitial
    \/ EafMain_Args
    \/ EafMain_HidInit
    \/ EafMain_HidOpen
    \/ EafMain_PollInitial

SpecInitialPolling ==
    MainInitBoth /\ [][InitialNext]_vars /\ WF_vars(InitialNext)

(***************************************************************************)
(* efw_get_position applied to one exchange with the device                *)
(***************************************************************************)
\* status bytes, also one never observed; consistency bytes
EfwFnStatusBytes == {0, 1, 4, 6}

EfwFnSlotBytes == {3, 4, 7}

EfwFnReports ==
    {EfwReport(cmd, st, ec, c6, c7, c8) :
        cmd \in {1, 2}, st \in EfwFnStatusBytes, ec \in EfwErrorBytes,
        c6 \in EfwFnSlotBytes, c7 \in EfwFnSlotBytes, c8 \in EfwFnSlotBytes}

EfwFnInit ==
    /\ prog = "zwoefw-set"
    /\ argc = 1
    /\ argv1 = 0
    /\ MainInit
    /\ EfwLocalsInit
    /\ EafLocalsInit
    /\ fin \in HidResults \X HidResults \X EfwFnReports
    /\ fout = {}

Fn_efw_get_position ==
    /\ fout = {}
    /\ fout' = {efw_get_position(fin[1], fin[2], fin[3])}
    /\ UNCHANGED <<mainVars, fin>>

EfwFnNext == Fn_efw_get_position

SpecEfwGetPosition == EfwFnInit /\ [][EfwFnNext]_vars

(***************************************************************************)
(* eaf_get_position applied to one exchange with the device                *)
(***************************************************************************)
\* status bytes: 0 stable, 1 moving, and two never observed
EafFnStatusBytes == {0, 1, 2, 255}

EafFnReports ==
    {EafReport(cmd, st, hi, lo, m[1], m[2]) :
        cmd \in {1, 3}, st \in EafFnStatusBytes, hi \in EafHiBytes,
        lo \in EafLoBytes, m \in EafMaxBytes}

EafFnInit ==
    /\ prog = "zwoeaf-set"
    /\ argc = 1
    /\ argv1 = 0
    /\ MainInit
    /\ EfwLocalsInit
    /\ EafLocalsInit
    /\ fin \in HidResults \X HidResults \X EafFnReports
    /\ fout = {}

Fn_eaf_get_position ==
    /\ fout = {}
    /\ fout' = {eaf_get_position(fin[1], fin[2], fin[3])}
    /\ UNCHANGED <<mainVars, fin>>

EafFnNext == Fn_eaf_get_position

SpecEafGetPosition == EafFnInit /\ [][EafFnNext]_vars

(***************************************************************************)
(* eaf_set_position applied to one position                                *)
(***************************************************************************)
\* the values of the parameter uint16_t pos
EafPositions == 0..65535

EafSetInit ==
    /\ prog = "zwoeaf-set"
    /\ argc = 1
    /\ argv1 = 0
    /\ MainInit
    /\ EfwLocalsInit
    /\ EafLocalsInit
    /\ fin \in EafPositions \X HidResults
    /\ fout = {}

Fn_eaf_set_position ==
    /\ fout = {}
    /\ fout' = {eaf_set_position(fin[1], fin[2])}
    /\ UNCHANGED <<mainVars, fin>>

EafSetNext == Fn_eaf_set_position

SpecEafSetPosition == EafSetInit /\ [][EafSetNext]_vars

(***************************************************************************)
(* A driver function applied to two reports, both read successfully, the   *)
(* second differing from the first in one byte                             *)
(***************************************************************************)
\* the values a byte of the second report is replaced by
AlteredBytes == {0, 255}

ReportOffsets == 0..(ZWO_REPORT_LEN - 1)

PairInputs(name, reports) ==
    {<<name, b, [b EXCEPT ![k] = v]>> :
        b \in reports, k \in ReportOffsets, v \in AlteredBytes}

PairInit ==
    /\ prog \in {"zwoefw-set", "zwoeaf-set"}
    /\ argc = 1
    /\ argv1 = 0
    /\ MainInit
    /\ EfwLocalsInit
    /\ EafLocalsInit
    /\ fin \in IF prog = "zwoefw-set"
               THEN PairInputs("efw_get_position", EfwFnReports)
                    \cup PairInputs("efw_get_info", EfwInfoReports)
               ELSE PairInputs("eaf_get_position", EafFnReports)
    /\ fout = {}

Pair_efw_get_position ==
    /\ fout = {}
    /\ fin[1] = "efw_get_position"
    /\ fout' = {<<efw_get_position(ZWO_REPORT_LEN, ZWO_REPORT_LEN, fin[2]),
                  efw_get_position(ZWO_REPORT_LEN, ZWO_REPORT_LEN, fin[3])>>}
    /\ UNCHANGED <<mainVars, fin>>

Pair_efw_get_info ==
    /\ fout = {}
    /\ fin[1] = "efw_get_info"
    /\ fout' = {<<efw_get_info(ZWO_REPORT_LEN, ZWO_REPORT_LEN, fin[2]),
                  efw_get_info(ZWO_REPORT_LEN, ZWO_REPORT_LEN, fin[3])>>}
    /\ UNCHANGED <<mainVars, fin>>

Pair_eaf_get_position ==
    /\ fout = {}
    /\ fin[1] = "eaf_get_position"
    /\ fout' = {<<eaf_get_position(ZWO_REPORT_LEN, ZWO_REPORT_LEN, fin[2]),
                  eaf_get_position(ZWO_REPORT_LEN, ZWO_REPORT_LEN, fin[3])>>}
    /\ UNCHANGED <<mainVars, fin>>

PairNext ==
    \/ Pair_efw_get_position
    \/ Pair_efw_get_info
    \/ Pair_eaf_get_position

SpecReportPairs == PairInit /\ [][PairNext]_vars

(***************************************************************************)
(* The head of the move loop of zwoefw-set, nextslot and efw_set_position, *)
(* applied to one slot byte                                                *)
(***************************************************************************)
\* the values of uint8_t slot
EfwSlotValues == 0..255

EfwStepInit ==
    /\ prog = "zwoefw-set"
    /\ argc = 1
    /\ argv1 = 0
    /\ MainInit
    /\ EfwLocalsInit
    /\ EafLocalsInit
    /\ fin \in EfwSlotValues \X HidResults
    /\ fout = {}

Fn_efw_step ==
    /\ fout = {}
    /\ fout' = {LET n == efw_nextslot(fin[1]) % 256
                IN  [nextslot |-> n, set |-> efw_set_position(n, fin[2])]}
    /\ UNCHANGED <<mainVars, fin>>

EfwStepNext == Fn_efw_step

SpecEfwStep == EfwStepInit /\ [][EfwStepNext]_vars

\* the report of the exchange was read successfully
FnReadOk == fin[1] = ZWO_REPORT_LEN /\ fin[2] = ZWO_REPORT_LEN

(***************************************************************************)
(* Properties                                                              *)
(***************************************************************************)
\* the slots c+1, c+2, ..., t, forward with wrap-around from 7 to 1
RECURSIVE ForwardSlots(_, _)
ForwardSlots(c, t) ==
    IF c = t THEN <<>>
    ELSE LET n == IF c = 7 THEN 1 ELSE c + 1
         IN  <<n>> \o ForwardSlots(n, t)

IsPrefix(a, b) == Len(a) <= Len(b) /\ SubSeq(b, 1, Len(a)) = a

\* the slot before t on the wheel
SlotBefore(t) == IF t = 1 THEN 7 ELSE t - 1

\* C1: stepping order.  In a run of the wheel program with target slot t
\* given, first settled slot c in 1..7, c # t, in which no bounded polling
\* loop has run out (the wheel settled at each commanded slot), the
\* set_position commands issued so far are the first ones of c+1, c+2, ...,
\* t (forward, wrapping from 7 to 1), and all of them once the run has exited
\* with code 0; and in every run a set_position for t is issued only while
\* the last settled slot is the one before t.
C1_StepsInOrder ==
    /\ [](argc > 1 /\ timeouts = 0 /\ firstSettled \in 1..7
            /\ targetslot \in 1..7 /\ firstSettled # targetslot
          => /\ IsPrefix(cmds, ForwardSlots(firstSettled, targetslot))
             /\ exitcode = 0 => cmds = ForwardSlots(firstSettled, targetslot))
    /\ [][cmds' # cmds /\ cmds'[Len(cmds')] = targetslot /\ lastSettled \in 1..7
          => lastSettled = SlotBefore(targetslot)]_vars

\* a run from slot 3 to slot 2, six steps around the wheel, that exited 0
C1_Witness ==
    /\ exitcode = 0
    /\ timeouts = 0
    /\ firstSettled = 3
    /\ targetslot = 2
    /\ cmds = <<4, 5, 6, 7, 1, 2>>

\* C2: every set_position(n) command the wheel program issues has
\* n = (s mod 7) + 1 for the slot s of the most recent Settled result, and
\* none is issued before a Settled result.
C2_OnlyNextOfSettled ==
    [][cmds' # cmds
       => /\ lastSettled # -1
          /\ cmds' = Append(cmds, (lastSettled % 7) + 1)]_vars

\* a command issued after the wheel reported itself settled at slot byte 8
C2_Witness ==
    /\ firstSettled = 8
    /\ cmds = <<2>>

\* C3: step-settle timeout.  When a bounded polling loop runs out, the run
\* exits with code 2, and no set_position command is issued after that.
C3_TimeoutExits ==
    /\ [][timeouts' > timeouts => exitcode' = 2]_vars
    /\ [][timeouts > 0 => cmds' = cmds]_vars

\* C4: efw_get_position returns -1 for every report read successfully
\* whose error code (offset 5) is nonzero or whose status (offset 4) is 6,
\* whatever the bytes at offsets 6, 7, 8 and the status.
C4_FatalWhatever ==
    \A r \in fout :
        FnReadOk /\ (fin[3][5] # 0 \/ fin[3][4] = 6) => r.ret = -1

\* C5: debounce.  For every report read successfully with error code 0,
\* efw_get_position returns Settled with the byte at offset 6 exactly when
\* status = 1 and the bytes at offsets 6, 7, 8 are pairwise equal; Fatal
\* when status = 6; and Moving in every other case.
C5_Debounce ==
    \A r \in fout :
        FnReadOk /\ fin[3][5] = 0 =>
            LET b == fin[3]
                agree == b[6] = b[7] /\ b[7] = b[8] /\ b[6] = b[8]
            IN  /\ (r.ret = 0) <=> (b[4] = 1 /\ agree)
                /\ r.ret = 0 => r.set /\ r.slot = b[6]
                /\ r.ret # 0 => ~r.set
                /\ b[4] = 6 => r.ret = -1
                /\ ~(b[4] = 1 /\ agree) /\ b[4] # 6 => r.ret = 1

\* status 1 with the bytes (3, 3, 4): Moving
C5_Witness ==
    \E r \in fout :
        /\ FnReadOk
        /\ fin[3][4] = 1 /\ fin[3][5] = 0
        /\ fin[3][6] = 3 /\ fin[3][7] = 3 /\ fin[3][8] = 4
        /\ r.ret = 1

\* the target of the focuser program, from its argument and the position
\* settled at when the initial polling loop ended
ResolvedTarget ==
    IF sign = "+" THEN firstSettled + argv1
    ELSE IF sign = "-" THEN firstSettled - argv1
    ELSE argv1

\* C6: after set_position(target), the focuser program exits 0 only when a
\* get_position result is Settled with position equal to the target; a
\* Moving result, or a Settled one elsewhere, never ends the run with 0.
C6_ExitOnlySettledAtTarget ==
    exitcode = 0 /\ cmds # <<>> => res = 0 /\ lastpos = targetpos

\* the target of the wheel program: the requested slot, or the first settled
\* slot without an argument
EfwTarget == IF argc > 1 THEN argv1 ELSE firstSettled

C8_ExitZeroPosition ==
    /\ pc = "exit" => exitcode \in {0, 2}
    /\ exitcode = 0 /\ argc > 1 => lastpos = ResolvedTarget
    /\ exitcode = 0 /\ argc = 1 => res = 0 /\ lastSettled # -1 /\ cmds = <<>>

\* exit 0 after moving from 256 to 255 on "-1"
C8_Witness ==
    /\ exitcode = 0
    /\ sign = "-" /\ argv1 = 1
    /\ firstSettled = 256
    /\ lastpos = 255
    /\ cmds = <<255>>

\* the run has passed the target resolution
EafResolved == argc > 1 /\ firstSettled # -1 /\ pc \in {"move", "exit"}

\* C9: target resolution.  A signed argument of magnitude d resolves to the
\* last settled position + d for '+' and - d for '-', an unsigned one to
\* itself; a resolved target below 0 or above the device maximum makes the
\* run exit 2 and no set_position command is ever sent.
C9_TargetResolution ==
    /\ EafResolved => targetpos = ResolvedTarget
    /\ EafResolved /\ (ResolvedTarget < 0 \/ ResolvedTarget > posmax)
         => pc = "exit" /\ exitcode = 2
    /\ cmds # <<>> => ResolvedTarget >= 0 /\ ResolvedTarget <= posmax
    /\ argc > 1 /\ firstSettled # -1 /\ (ResolvedTarget < 0 \/ ResolvedTarget > posmax)
         => cmds = <<>>

\* "-256" at position 255: target -1, rejected
C9_Witness ==
    /\ EafResolved
    /\ sign = "-" /\ argv1 = 256
    /\ firstSettled = 255
    /\ targetpos = -1
    /\ exitcode = 2

\* C10: command ordering.  In every run of the focuser program with an
\* in-range target exactly one set_position command is issued, carrying the
\* resolved target, only after a Settled result, and the polls after it
\* continue until a Settled result at the target.
C10_OneSetThenPollUntilSettled ==
    /\ Len(cmds) <= 1
    /\ cmds # <<>> => firstSettled # -1 /\ cmds[1] = ResolvedTarget
    /\ EafResolved /\ ResolvedTarget >= 0 /\ ResolvedTarget <= posmax
         => Len(cmds) = 1
    /\ pc = "exit" /\ exitcode = 0 /\ cmds # <<>>
         => res = 0 /\ lastSettled = ResolvedTarget

\* C11: handle release.  In both programs a handle that was opened is closed
\* exactly once, and the process exits only with it closed; no send or get
\* feature-report call is made on a handle that is not open (so none after
\* the close); and hid_close is never called for a handle that failed to
\* open.
C11_HandleRelease ==
    /\ ~late
    /\ closes <= 1
    /\ handle = "null" => closes = 0
    /\ handle = "open" => closes = 0 /\ pc # "exit"
    /\ handle = "closed" => closes = 1 /\ pc = "exit"
    /\ pc = "exit" /\ contacted => handle = "closed"

\* the focuser program exited 2 for a target above the device maximum,
\* with the handle closed once
C11_Witness ==
    /\ prog = "zwoeaf-set"
    /\ exitcode = 2
    /\ firstSettled # -1
    /\ targetpos > posmax
    /\ cmds = <<>>
    /\ ~failed
    /\ handle = "closed"
    /\ closes = 1

\* C12: fatal stops the run.  In both programs, once a send or get
\* feature-report call has returned a count other than 16, or get_position
\* has returned -1, no further feature-report call is made, and the run has
\* exited with code 2.
C12_FatalStops ==
    /\ ~retried
    /\ failed => pc = "exit" /\ exitcode = 2

\* the wheel program exited 2 on a get_position result of -1 in the polling
\* loop after its first step
C12_Witness ==
    /\ prog = "zwoefw-set"
    /\ failed
    /\ res = -1
    /\ Len(cmds) = 1
    /\ exitcode = 2
    /\ handle = "closed"

\* the argument given is one the program rejects: for the wheel a value
\* outside 1..7, for the focuser a magnitude outside 0..65535
BadArgument ==
    /\ argc > 1
    /\ \/ prog = "zwoefw-set" /\ ~(argv1 \in 1..7)
       \/ prog = "zwoeaf-set" /\ ~(argv1 \in 0..65535)

\* C13: argument errors precede device contact.  A run with a rejected
\* argument never opens the device and never makes a send or get
\* feature-report call: it goes from the argument check to exit, with code 2.
C13_ArgumentErrorsFirst ==
    BadArgument =>
        /\ handle = "null"
        /\ closes = 0
        /\ ~contacted
        /\ pc \in {"args", "exit"}
        /\ pc = "exit" => exitcode = 2

\* the wheel program exited 2 for the argument 8
C13_Witness ==
    /\ prog = "zwoefw-set"
    /\ argc > 1
    /\ argv1 = 8
    /\ pc = "exit"
    /\ exitcode = 2
    /\ handle = "null"
    /\ ~contacted

C15_EafClassification ==
    \A r \in fout :
        /\ FnReadOk => /\ r.ret # -1
                       /\ fin[3][4] = 0 => r.ret = 0
                       /\ fin[3][4] # 0 => r.ret = 1
        /\ r.ret = -1 <=> (fin[1] # 16 \/ fin[2] # 16)

\* a report with the status byte 255: Moving
C15_Witness ==
    \E r \in fout :
        /\ FnReadOk
        /\ fin[3][4] = 255
        /\ r.ret = 1

\* C16: focuser set_position frame.  For every pos in 0..65535 the frame
\* eaf_set_position sends is the 16 bytes
\* 03 7E 5A 03 01 00 00 00 hi lo 00 00 00 02 EA 60 with hi = pos div 256
\* and lo = pos mod 256, so hi * 256 + lo is pos, and the bytes at the other
\* offsets are the same for every pos.
C16_EafSetPositionFrame ==
    \A r \in fout :
        LET p  == fin[1]
            hi == p \div 256
            lo == p % 256
        IN  /\ r.sent
            /\ DOMAIN r.frame = 0..15
            /\ r.frame = [k \in 0..15 |->
                            <<3, 126, 90, 3, 1, 0, 0, 0, hi, lo,
                              0, 0, 0, 2, 234, 96>>[k + 1]]
            /\ r.frame[8] \in 0..255 /\ r.frame[9] \in 0..255
            /\ r.frame[8] * 256 + r.frame[9] = p

\* the frame for 26000 (0x6590) carries 0x65 0x90
C16_Witness ==
    \E r \in fout :
        /\ fin[1] = 26000
        /\ fin[2] = 16
        /\ r.ret = 0
        /\ r.frame[8] = 101
        /\ r.frame[9] = 144

\* every variable but the position and maximum a focuser report carries
allButReported ==
    <<prog, argc, argv1, pc, handle, closes, exitcode, res, cmds,
      firstSettled, lastSettled, efwLocals, sign, targetpos, targetrel,
      hidHist, fnVars>>

\* C17: plain status polling is unbounded.  In the initial polling loop of
\* both programs no set_position command has been issued and the run has
\* not exited; a get_position is always the next step; a Moving result
\* leaves the program in the loop, and after two Moving results in a row it
\* is in the very state it was in before, but for the position reported
\* (nothing counts the attempts), so
\* against a device that reports Moving forever the run stays in the loop
\* for ever; a Settled or Fatal result ends the loop; and a program in
\* the loop gets to a Moving result or out of the loop.
C17_InitialPollingUnbounded ==
    /\ [](pc = "poll_initial" =>
            /\ cmds = <<>>
            /\ exitcode = -1
            /\ handle = "open"
            /\ ENABLED (EfwMain_PollInitial \/ EafMain_PollInitial))
    /\ [][pc = "poll_initial" /\ res' = 1
          => pc' = "poll_initial" /\ UNCHANGED <<cmds, exitcode, handle, closes>>]_vars
    /\ [][pc = "poll_initial" /\ res = 1 /\ res' = 1
          => UNCHANGED allButReported]_vars
    /\ [][pc = "poll_initial" /\ res' \in {0, -1} => pc' # "poll_initial"]_vars
    /\ pc = "poll_initial" ~> (pc # "poll_initial" \/ res = 1)

\* the focuser program is in its initial polling loop after a Moving result
C17_Witness ==
    /\ prog = "zwoeaf-set"
    /\ pc = "poll_initial"
    /\ res = 1
    /\ lastpos # -1
    /\ firstSettled = -1
    /\ exitcode = -1

\* the offsets get_position extracts fields from: the wheel's status, error
\* code, three slot bytes and slot count, the focuser's status, position
\* and maximum
EfwExtracted == {4, 5, 6, 7, 8, 9}

EafExtracted == {4, 8, 9, 14, 15}

\* two reports agree at the offsets of a set
AgreeOn(offsets, b1, b2) == \A k \in offsets : b1[k] = b2[k]

\* C18: protocol anomalies do not influence control.  Two reports read
\* successfully that agree on the extracted fields (wheel: offsets 4 to 9,
\* focuser: offsets 4, 8, 9, 14, 15) get the same get_position result and
\* the same values written for main(), and main() takes the same branch
\* with both in its initial loop and, from every slot or position it may
\* hold, in its loop after a command; and efw_get_info returns 0 for every
\* report read, identification matching or not, so main() goes on.
C18_AnomaliesNoControl ==
    \A o \in fout :
        LET r1 == o[1]
            r2 == o[2]
        IN  /\ fin[1] = "efw_get_position" /\ AgreeOn(EfwExtracted, fin[2], fin[3])
                 => /\ r1.ret = r2.ret /\ r1.set = r2.set /\ r1.slot = r2.slot
                    /\ r1.calls = r2.calls
                    /\ efw_initial_branch(r1.ret) = efw_initial_branch(r2.ret)
                    /\ \A s \in SlotBytes, n \in 1..7 :
                          efw_poll_branch(r1.ret, IF r1.set THEN r1.slot ELSE s, n)
                          = efw_poll_branch(r2.ret, IF r2.set THEN r2.slot ELSE s, n)
            /\ fin[1] = "eaf_get_position" /\ AgreeOn(EafExtracted, fin[2], fin[3])
                 => /\ r1.ret = r2.ret /\ r1.set = r2.set /\ r1.pos = r2.pos
                    /\ r1.posmax = r2.posmax /\ r1.calls = r2.calls
                    /\ eaf_initial_branch(r1.ret) = eaf_initial_branch(r2.ret)
                    /\ \A t \in {0, 1, 255, 256} :
                          eaf_poll_branch(r1.ret, r1.pos, t)
                          = eaf_poll_branch(r2.ret, r2.pos, t)
            /\ fin[1] = "efw_get_info" => r1.ret = 0 /\ r2.ret = 0

\* a settled wheel report and the same report with the byte at offset 14
\* replaced: the second is logged as unexpected, both are Settled at slot 3
C18_Witness ==
    \E o \in fout :
        /\ fin[1] = "efw_get_position"
        /\ AgreeOn(EfwExtracted, fin[2], fin[3])
        /\ fin[2][14] = 48 /\ fin[3][14] = 255
        /\ ~o[1].anomaly /\ o[2].anomaly
        /\ o[1].ret = 0 /\ o[2].ret = 0
        /\ o[1].slot = 3 /\ o[2].slot = 3

\* C19: the wheel program exits 0 only directly after observing the wheel
\* settled at its goal.  Whenever a run has exited 0 after at least one
\* set_position command, its last get_position returned Settled, at the
\* slot of the last set_position command, and that slot is the target slot.
C19_ExitZeroAfterSettledAtGoal ==
    prog = "zwoefw-set" /\ exitcode = 0 /\ cmds # <<>>
        => /\ res = 0
           /\ lastSettled = cmds[Len(cmds)]
           /\ cmds[Len(cmds)] = targetslot

\* C20: whatever slot byte (0..255) the wheel reported as settled, the slot
\* the move loop passes to efw_set_position lies in 1..7: the range check
\* does not reject it, the frame is sent, and efw_set_position fails only
\* when the send returns a count other than 16.
C20_StepSlotInRange ==
    \A o \in fout :
        /\ o.nextslot \in 1..7
        /\ o.set.sent
        /\ o.set.frame[5] = o.nextslot
        /\ o.set.ret # 0 <=> fin[2] # 16

\* from the slot byte 255 the command is for slot 4, and it is sent
C20_Witness ==
    \E o \in fout :
        /\ fin[1] = 255
        /\ fin[2] = 16
        /\ o.nextslot = 4
        /\ o.set.sent
        /\ o.set.ret = 0

====
